---- MODULE Spec2Model ----
(***************************************************************************)
(* State-machine model of src/telegram_dnd_bot.py: the persistent HP and   *)
(* quota engine of the "Fate Ardent" Telegram bot.                         *)
(*                                                                         *)
(* Python values are modelled as follows.                                  *)
(*   - a dict with string keys is a TLA+ function whose DOMAIN is the set  *)
(*     of keys present (so dict.get / dict.setdefault can be modelled);    *)
(*   - state["players"], whose iteration order matters to                  *)
(*     find_target_from_arg, is a sequence of [key, val] entries in        *)
(*     insertion order;                                                    *)
(*   - a str that the code inspects character by character (names, name    *)
(*     tokens) is a sequence of one-character strings;                     *)
(*   - date.today().isoformat() is the number of the day (day 0 is a       *)
(*     Monday) and the ISO week key is the number of the week.             *)
(***************************************************************************)
EXTENDS Integers, Sequences, FiniteSets, TLC

VARIABLES
    file,      \* content of STATE_PATH on durable storage
    today,     \* the wall clock: number of the current calendar day
    running,   \* handler coroutines suspended at an await (set of records)
    used,      \* history: successful dmg/heal of the current day and
               \* successful resurrections of the current ISO week, per actor
    payload    \* storage-level specification: outcome of the last bare
               \* load_state() call

vars == <<file, today, running, used, payload>>

----------------------------------------------------------------------------
(* Program constants *)

MAX_HP == 100
DAILY_LIMIT == 10
WEEKLY_RESURRECTION_LIMIT == 1
DieMin == 1
DieMax == 8
DaysPerWeek == 7

(* Bounds of the model *)

FirstDay == 5      \* the run starts on a Saturday
MaxDay == 7        \* and the clock stops on the Monday after it
MaxTasks == 2      \* handler coroutines alive at once, were dispatch concurrent

----------------------------------------------------------------------------
(* Python dict helpers *)

EmptyDict == << >>

Get(d, k, default) == IF k \in DOMAIN d THEN d[k] ELSE default

Put(d, k, v) == (k :> v) @@ d

SetDefault(d, k, v) == IF k \in DOMAIN d THEN d ELSE d @@ (k :> v)

\* d.get(k) != v, where a missing key yields None, which differs from v
GetDiffers(d, k, v) == k \notin DOMAIN d \/ d[k] # v

(* Ordered dict (state["players"]): sequence of [key, val] in insertion order *)

ODKeys(od) == {od[i].key : i \in 1..Len(od)}

ODIndex(od, k) ==
    IF \E i \in 1..Len(od) : od[i].key = k
    THEN CHOOSE i \in 1..Len(od) : od[i].key = k
    ELSE 0

ODGet(od, k) == od[ODIndex(od, k)].val

\* od[k] = v: a new key is appended, an existing key keeps its position
ODPut(od, k, v) ==
    LET i == ODIndex(od, k)
    IN  IF i # 0
        THEN [od EXCEPT ![i] = [key |-> k, val |-> v]]
        ELSE Append(od, [key |-> k, val |-> v])

----------------------------------------------------------------------------
(* Strings the code inspects *)

LowerChar(c) ==
    CASE c = "M" -> "m"
      [] c = "I" -> "i"
      [] c = "R" -> "r"
      [] c = "A" -> "a"
      [] OTHER -> c

Lower(s) == [i \in 1..Len(s) |-> LowerChar(s[i])]

RECURSIVE LStrip(_, _)
LStrip(s, chars) ==
    IF s # << >> /\ Head(s) \in chars THEN LStrip(Tail(s), chars) ELSE s

RECURSIVE RStrip(_, _)
RStrip(s, chars) ==
    IF s # << >> /\ s[Len(s)] \in chars
    THEN RStrip(SubSeq(s, 1, Len(s) - 1), chars)
    ELSE s

Strip(s) == RStrip(LStrip(s, {" "}), {" "})

----------------------------------------------------------------------------
(* Persistent store *)

None == [none |-> TRUE]

EmptyState == [players |-> << >>, usage |-> << >>]

Return(v) == [raised |-> FALSE, value |-> v]

Raise(e) == [raised |-> TRUE, exc |-> e]

\* A JSON document, as json.dumps writes it and json.loads reads it: a tree
\* of objects (members in the order of the text), strings and numbers.
JNumber(n) == [type |-> "number", n |-> n]

JString(s) == [type |-> "string", s |-> s]

\* the string of a day or week key, of which the model keeps the number
JDate(n) == [type |-> "string", date |-> n]

JObject(members) == [type |-> "object", members |-> members]

Member(name, value) == [name |-> name, value |-> value]

\* "day" and "week" hold the str of a date, "name" a str, every other key
\* an int
DateKeys == {"day", "week"}

dumps_scalar(k, v) ==
    IF k = "name" THEN JString(v)
    ELSE IF k \in DateKeys THEN JDate(v)
    ELSE JNumber(v)

\* json.dumps of a player or usage record, the members of the keys `keys`
\* (the model keeps no order for these dicts; they are written in some order)
RECURSIVE dumps_record(_, _)
dumps_record(d, keys) ==
    IF keys = {} THEN << >>
    ELSE LET k == CHOOSE x \in keys : TRUE
         IN  <<Member(k, dumps_scalar(k, d[k]))>> \o dumps_record(d, keys \ {k})

\* json.dumps of state["players"] with sort_keys=True: the member of the
\* key "1" comes before every other
RECURSIVE dumps_players_sorted(_, _)
dumps_players_sorted(players, n) ==
    IF n = 0 THEN << >>
    ELSE LET rest == dumps_players_sorted(players, n - 1)
             p == players[n]
             m == Member(p.key, JObject(dumps_record(p.val, DOMAIN p.val)))
         IN  IF p.key = "1" THEN <<m>> \o rest ELSE Append(rest, m)

\* json.dumps of state["players"]: the first n members, in the dict's order
RECURSIVE dumps_players(_, _)
dumps_players(players, n) ==
    IF n = 0 THEN << >>
    ELSE LET p == players[n]
         IN  Append(dumps_players(players, n - 1),
                    Member(p.key, JObject(dumps_record(p.val, DOMAIN p.val))))

\* json.dumps of state["usage"], the members of the keys `keys`
RECURSIVE dumps_usage(_, _)
dumps_usage(usage, keys) ==
    IF keys = {} THEN << >>
    ELSE LET k == CHOOSE x \in keys : TRUE
         IN  <<Member(k, JObject(dumps_record(usage[k], DOMAIN usage[k])))>>
                 \o dumps_usage(usage, keys \ {k})

RECURSIVE dumps_state(_, _)
dumps_state(state, keys) ==
    IF keys = {} THEN << >>
    ELSE LET k == CHOOSE x \in keys : TRUE
             v == IF k = "players"
                  THEN dumps_players(state[k], Len(state[k]))
                  ELSE dumps_usage(state[k], DOMAIN state[k])
         IN  <<Member(k, JObject(v))>> \o dumps_state(state, keys \ {k})

\* json.dumps(state, ensure_ascii=False, indent=2)
json_dumps(state) == JObject(dumps_state(state, DOMAIN state))

\* json.loads of a string (of a date key) or a number
loads_scalar(value) ==
    IF value.type = "number" THEN value.n
    ELSE IF "date" \in DOMAIN value THEN value.date
    ELSE value.s

\* json.loads of an object whose members are strings and numbers (the first
\* n members): a later member of the same name replaces the earlier one
RECURSIVE loads_record(_, _)
loads_record(members, n) ==
    IF n = 0 THEN EmptyDict
    ELSE Put(loads_record(members, n - 1), members[n].name,
             loads_scalar(members[n].value))

\* json.loads of the "players" object: a dict in the order of the text
RECURSIVE loads_players(_, _)
loads_players(members, n) ==
    IF n = 0 THEN << >>
    ELSE LET rest == loads_players(members, n - 1)
             v == members[n].value.members
         IN  ODPut(rest, members[n].name, loads_record(v, Len(v)))

\* json.loads of the "usage" object
RECURSIVE loads_usage(_, _)
loads_usage(members, n) ==
    IF n = 0 THEN EmptyDict
    ELSE LET v == members[n].value.members
         IN  Put(loads_usage(members, n - 1), members[n].name,
                 loads_record(v, Len(v)))

\* json.loads(text) for a text whose top-level value is an object
RECURSIVE json_loads_members(_, _)
json_loads_members(members, n) ==
    IF n = 0 THEN EmptyDict
    ELSE LET v == members[n].value.members
         IN  Put(json_loads_members(members, n - 1), members[n].name,
                 IF members[n].name = "players"
                 THEN loads_players(v, Len(v))
                 ELSE loads_usage(v, Len(v)))

json_loads(doc) == json_loads_members(doc.members, Len(doc.members))

\* What load_state does with each content of STATE_PATH.
\*   missing   STATE_PATH.exists() is false
\*   oserror   read_text raises OSError
\*   notutf8   read_text raises UnicodeDecodeError (a ValueError that is
\*             neither an OSError nor a json.JSONDecodeError)
\*   notjson   json.loads raises json.JSONDecodeError
\*   json      json.loads returns file.doc
load_state(f) ==
    IF f.kind = "missing" THEN Return(EmptyState)
    ELSE IF f.kind \in {"oserror", "notjson"} THEN Return(EmptyState)
    ELSE IF f.kind = "notutf8" THEN Raise("UnicodeDecodeError")
    ELSE IF f.doc.type # "object" THEN Raise("AttributeError")
    ELSE Return(SetDefault(SetDefault(json_loads(f.doc), "players", << >>),
                           "usage", << >>))

save_state_drops_defeated(state) ==
    [kind |-> "json",
     doc |-> json_dumps([state EXCEPT !.players =
                 SelectSeq(@, LAMBDA e : Get(e.val, "hp", MAX_HP) # 0)])]

save_state(state) == [kind |-> "json", doc |-> json_dumps(state)]

----------------------------------------------------------------------------
(* Participant registry *)

Stranger == <<"S">>

Str(id) == <<id>>

user_display_name(user) ==
    IF user = None THEN Stranger
    ELSE IF user.full_name # << >> THEN user.full_name
    ELSE IF user.username # << >> THEN <<"@">> \o user.username
    ELSE Str(user.id)

\* The state after ensure_player(state, user_id, name); the player it returns
\* is ODGet(result.players, user_id).
ensure_player_resets_hp(state, user_id, name) ==
    LET players == state.players
        i == ODIndex(players, user_id)
        known == i # 0 /\ players[i].val # EmptyDict
        player == IF ~known
                  THEN [name |-> name, hp |-> MAX_HP]
                  ELSE Put(Put(players[i].val, "name", name), "hp", MAX_HP)
    IN  [state EXCEPT !.players = ODPut(players, user_id, player)]

ensure_player_keeps_name(state, user_id, name) ==
    LET players == state.players
        i == ODIndex(players, user_id)
        known == i # 0 /\ players[i].val # EmptyDict
        player == IF ~known
                  THEN [name |-> name, hp |-> MAX_HP]
                  ELSE SetDefault(SetDefault(players[i].val, "name", name),
                                  "hp", MAX_HP)
    IN  [state EXCEPT !.players = ODPut(players, user_id, player)]

ensure_player(state, user_id, name) ==
    LET players == state.players
        i == ODIndex(players, user_id)
        known == i # 0 /\ players[i].val # EmptyDict
        player == IF ~known
                  THEN [name |-> name, hp |-> MAX_HP]
                  ELSE SetDefault(Put(players[i].val, "name", name),
                                  "hp", MAX_HP)
    IN  [state EXCEPT !.players = ODPut(players, user_id, player)]

----------------------------------------------------------------------------
(* Quota tracker *)

current_day_key(now) == now

current_week_key(now) == now \div DaysPerWeek

\* actor_usage with the stored day compared to the week key
actor_usage_day_vs_week(state, actor_id, now) ==
    LET u0 == Get(state.usage, actor_id, EmptyDict)
        day_key == current_day_key(now)
        week_key == current_week_key(now)
        u1 == IF GetDiffers(u0, "day", week_key)
              THEN Put(Put(Put(u0, "day", day_key), "dmg", 0), "heal", 0)
              ELSE u0
        u2 == IF GetDiffers(u1, "week", week_key)
              THEN Put(Put(u1, "week", week_key), "resurrection", 0)
              ELSE u1
        u3 == SetDefault(SetDefault(SetDefault(u2, "dmg", 0), "heal", 0),
                         "resurrection", 0)
    IN  [state EXCEPT !.usage = Put(state.usage, actor_id, u3)]

actor_usage_partial_reset(state, actor_id, now) ==
    LET u0 == Get(state.usage, actor_id, EmptyDict)
        day_key == current_day_key(now)
        u1 == IF GetDiffers(u0, "day", day_key)
              THEN Put(Put(u0, "day", day_key), "dmg", 0)
              ELSE u0
        week_key == current_week_key(now)
        u2 == IF GetDiffers(u1, "week", week_key)
              THEN Put(Put(u1, "week", week_key), "resurrection", 0)
              ELSE u1
        u3 == SetDefault(SetDefault(SetDefault(u2, "dmg", 0), "heal", 0),
                         "resurrection", 0)
    IN  [state EXCEPT !.usage = Put(state.usage, actor_id, u3)]

actor_usage_day_resets_week(state, actor_id, now) ==
    LET u0 == Get(state.usage, actor_id, EmptyDict)
        day_key == current_day_key(now)
        u1 == IF GetDiffers(u0, "day", day_key)
              THEN Put(Put(Put(Put(u0, "day", day_key), "dmg", 0), "heal", 0),
                       "resurrection", 0)
              ELSE u0
        week_key == current_week_key(now)
        u2 == IF GetDiffers(u1, "week", week_key)
              THEN Put(Put(u1, "week", week_key), "resurrection", 0)
              ELSE u1
        u3 == SetDefault(SetDefault(SetDefault(u2, "dmg", 0), "heal", 0),
                         "resurrection", 0)
    IN  [state EXCEPT !.usage = Put(state.usage, actor_id, u3)]

\* The state after actor_usage(state, actor_id) called at time `now`; the
\* usage dict it returns is result.usage[actor_id].
actor_usage(state, actor_id, now) ==
    LET u0 == Get(state.usage, actor_id, EmptyDict)
        day_key == current_day_key(now)
        u1 == IF GetDiffers(u0, "day", day_key)
              THEN Put(Put(Put(u0, "day", day_key), "dmg", 0), "heal", 0)
              ELSE u0
        week_key == current_week_key(now)
        u2 == IF GetDiffers(u1, "week", week_key)
              THEN Put(Put(u1, "week", week_key), "resurrection", 0)
              ELSE u1
        u3 == SetDefault(SetDefault(SetDefault(u2, "dmg", 0), "heal", 0),
                         "resurrection", 0)
    IN  [state EXCEPT !.usage = Put(state.usage, actor_id, u3)]

----------------------------------------------------------------------------
(* Target resolver *)

Target(user_id, name) == [user_id |-> user_id, name |-> name]

NormalName(s) == LStrip(Lower(s), {"@"})

find_target_from_arg(state, raw_target) ==
    LET needle == LStrip(Lower(Strip(raw_target)), {"@"})
        players == state.players
        hits == {i \in 1..Len(players) :
                    NormalName(Get(players[i].val, "name", << >>)) = needle}
        first == CHOOSE i \in hits : \A j \in hits : i <= j
    IN  IF needle = << >> THEN None
        ELSE IF hits = {} THEN None
        ELSE Target(players[first].key, Get(players[first].val, "name", << >>))

resolve_target_registers_token(update, state) ==
    IF update.reply # None
    THEN LET target_name == user_display_name(update.reply)
         IN  [target |-> Target(update.reply.id, target_name),
              state  |-> ensure_player(state, update.reply.id, target_name)]
    ELSE IF update.args # << >>
         THEN IF find_target_from_arg(state, update.args[1]) # None
              THEN [target |-> find_target_from_arg(state, update.args[1]),
                    state  |-> state]
              ELSE [target |-> Target("0", update.args[1]),
                    state  |-> ensure_player(state, "0", update.args[1])]
         ELSE [target |-> None, state |-> state]

resolve_target_token_first(update, state) ==
    IF update.args # << >> /\ find_target_from_arg(state, update.args[1]) # None
    THEN [target |-> find_target_from_arg(state, update.args[1]),
          state  |-> state]
    ELSE IF update.reply # None
         THEN LET target_name == user_display_name(update.reply)
              IN  [target |-> Target(update.reply.id, target_name),
                   state  |-> ensure_player(state, update.reply.id, target_name)]
         ELSE [target |-> None, state |-> state]

\* [target, state]: the value resolve_target returns and the state it leaves
resolve_target(update, state) ==
    IF update.reply # None
    THEN LET target_name == user_display_name(update.reply)
         IN  [target |-> Target(update.reply.id, target_name),
              state  |-> ensure_player(state, update.reply.id, target_name)]
    ELSE IF update.args # << >>
         THEN [target |-> find_target_from_arg(state, update.args[1]),
               state  |-> state]
         ELSE [target |-> None, state |-> state]

----------------------------------------------------------------------------
(* Handlers, up to their first await.  Each returns the continuation the   *)
(* coroutine is suspended with: pc names the await it stopped at, state is *)
(* its local `state`, saved tells whether save_state(state) already ran.   *)
(* (What is left of every handler after its await is the same code: save   *)
(* the state unless it is saved, and return.)                              *)

Max(a, b) == IF a >= b THEN a ELSE b

Min(a, b) == IF a <= b THEN a ELSE b

Suspended(pc, state, saved) == [pc |-> pc, state |-> state, saved |-> saved]

\* start (help_command awaits start), roll and hp: load, ensure_player,
\* save, then reply
start(f, update) ==
    LET state == ensure_player(load_state(f).value, update.user.id,
                               user_display_name(update.user))
    IN  Suspended("reply_info", state, TRUE)

roll(f, update) ==
    LET state == ensure_player(load_state(f).value, update.user.id,
                               user_display_name(update.user))
    IN  Suspended("reply_info", state, TRUE)

hp(f, update) ==
    LET state == ensure_player(load_state(f).value, update.user.id,
                               user_display_name(update.user))
    IN  Suspended("reply_info", state, TRUE)

DailyExhaustedOffByOne(usage, mode) == usage[mode] > DAILY_LIMIT

\* usage["dmg"] >= DAILY_LIMIT, usage["heal"] >= DAILY_LIMIT
DailyExhausted(usage, mode) == usage[mode] >= DAILY_LIMIT

WeeklyExhaustedOffByOne(usage) == usage.resurrection > WEEKLY_RESURRECTION_LIMIT

\* usage["resurrection"] >= WEEKLY_RESURRECTION_LIMIT
WeeklyExhausted(usage) == usage.resurrection >= WEEKLY_RESURRECTION_LIMIT

DamagedUnclamped(points, amount) == points - amount

\* max(0, int(player["hp"]) - amount)
Damaged(points, amount) == Max(0, points - amount)

HealedUnclamped(points, amount) == points + amount

\* min(MAX_HP, int(player["hp"]) + amount)
Healed(points, amount) == Min(MAX_HP, points + amount)

apply_delta_usage_first(f, update, mode, amount, now) ==
    LET actor_name == user_display_name(update.user)
        actor_id == update.user.id
        s1 == ensure_player(load_state(f).value, actor_id, actor_name)
        r == resolve_target(update, s1)
        target == r.target
        s2 == actor_usage(r.state, actor_id, now)
        usage == s2.usage[actor_id]
        s3 == ensure_player(s2, target.user_id, target.name)
        player == ODGet(s3.players, target.user_id)
    IN  IF target = None
        THEN Suspended("reply_notarget", s2, FALSE)
        ELSE IF mode = "dmg" /\ DailyExhausted(usage, "dmg")
        THEN Suspended("reply_quota", s2, FALSE)
        ELSE IF mode = "heal" /\ DailyExhausted(usage, "heal")
        THEN Suspended("reply_quota", s2, FALSE)
        ELSE IF mode = "dmg"
        THEN Suspended("reply_success",
                 [s3 EXCEPT !.usage[actor_id] = Put(usage, "dmg", usage.dmg + 1),
                            !.players = ODPut(s3.players, target.user_id,
                                Put(player, "hp", Damaged(player.hp, amount)))],
                 TRUE)
        ELSE Suspended("reply_success",
                 [s3 EXCEPT !.usage[actor_id] = Put(usage, "heal", usage.heal + 1),
                            !.players = ODPut(s3.players, target.user_id,
                                Put(player, "hp", Healed(player.hp, amount)))],
                 TRUE)

apply_delta_unregistered_actor(f, update, mode, amount, now) ==
    LET actor_name == user_display_name(update.user)
        actor_id == update.user.id
        s1 == load_state(f).value
        r == resolve_target(update, s1)
        target == r.target
        s2 == actor_usage(r.state, actor_id, now)
        usage == s2.usage[actor_id]
        s3 == ensure_player(s2, target.user_id, target.name)
        player == ODGet(s3.players, target.user_id)
    IN  IF target = None
        THEN Suspended("reply_notarget", r.state, FALSE)
        ELSE IF mode = "dmg" /\ DailyExhausted(usage, "dmg")
        THEN Suspended("reply_quota", s2, FALSE)
        ELSE IF mode = "heal" /\ DailyExhausted(usage, "heal")
        THEN Suspended("reply_quota", s2, FALSE)
        ELSE IF mode = "dmg"
        THEN Suspended("reply_success",
                 [s3 EXCEPT !.usage[actor_id] = Put(usage, "dmg", usage.dmg + 1),
                            !.players = ODPut(s3.players, target.user_id,
                                Put(player, "hp", Damaged(player.hp, amount)))],
                 TRUE)
        ELSE Suspended("reply_success",
                 [s3 EXCEPT !.usage[actor_id] = Put(usage, "heal", usage.heal + 1),
                            !.players = ODPut(s3.players, target.user_id,
                                Put(player, "hp", Healed(player.hp, amount)))],
                 TRUE)

apply_delta(f, update, mode, amount, now) ==
    LET actor_name == user_display_name(update.user)
        actor_id == update.user.id
        s1 == ensure_player(load_state(f).value, actor_id, actor_name)
        r == resolve_target(update, s1)
        target == r.target
        s2 == actor_usage(r.state, actor_id, now)
        usage == s2.usage[actor_id]
        s3 == ensure_player(s2, target.user_id, target.name)
        player == ODGet(s3.players, target.user_id)
    IN  IF target = None
        THEN Suspended("reply_notarget", r.state, FALSE)
        ELSE IF mode = "dmg" /\ DailyExhausted(usage, "dmg")
        THEN Suspended("reply_quota", s2, FALSE)
        ELSE IF mode = "heal" /\ DailyExhausted(usage, "heal")
        THEN Suspended("reply_quota", s2, FALSE)
        ELSE IF mode = "dmg"
        THEN Suspended("reply_success",
                 [s3 EXCEPT !.usage[actor_id] = Put(usage, "dmg", usage.dmg + 1),
                            !.players = ODPut(s3.players, target.user_id,
                                Put(player, "hp", Damaged(player.hp, amount)))],
                 TRUE)
        ELSE Suspended("reply_success",
                 [s3 EXCEPT !.usage[actor_id] = Put(usage, "heal", usage.heal + 1),
                            !.players = ODPut(s3.players, target.user_id,
                                Put(player, "hp", Healed(player.hp, amount)))],
                 TRUE)

resurrection(f, update, now) ==
    LET actor_id == update.user.id
        actor_name == user_display_name(update.user)
        s1 == ensure_player(load_state(f).value, actor_id, actor_name)
        r == resolve_target(update, s1)
        target == r.target
        s2 == actor_usage(r.state, actor_id, now)
        usage == s2.usage[actor_id]
        s3 == [s2 EXCEPT !.usage[actor_id] =
                   Put(usage, "resurrection", usage.resurrection + 1)]
        s4 == ensure_player(s3, target.user_id, target.name)
        player == ODGet(s4.players, target.user_id)
    IN  IF target = None
        THEN Suspended("reply_notarget", r.state, FALSE)
        ELSE IF WeeklyExhausted(usage)
        THEN Suspended("reply_quota", s2, FALSE)
        ELSE Suspended("reply_success",
                 [s4 EXCEPT !.players =
                      ODPut(s4.players, target.user_id, Put(player, "hp", MAX_HP))],
                 TRUE)

----------------------------------------------------------------------------
(* The environment: who sends which update *)

Ira == [id |-> "1", full_name |-> <<"I", "r", "a">>, username |-> << >>]

Mira == [id |-> "2", full_name |-> <<"M", "i", "r", "a">>,
         username |-> <<"m", "i", "r", "a">>]

Profiles == {Ira, Mira}

Users == {p.id : p \in Profiles}

Update(user, reply, args) == [user |-> user, reply |-> reply, args |-> args]

AtMira == <<"@", "M", "i", "r", "a">>

Mir == <<"M", "i", "r">>

\* Ira is the one who writes to the bot; Mira is in the chat and is replied to
InfoUpdates == {Update(Ira, None, << >>)}

DeltaUpdates ==
    { Update(Ira, Mira, << >>),        \* /dmg as a reply to a message of Mira
      Update(Ira, None, <<Mir>>),      \* /dmg Mir
      Update(Ira, None, << >>) }       \* /dmg

ResurrectionUpdates ==
    { Update(Ira, Mira, << >>),        \* as a reply to a message of Mira
      Update(Ira, Ira, << >>),         \* as a reply to her own message
      Update(Ira, None, <<AtMira>>),   \* /resurrection @Mira
      Update(Ira, None, <<Mir>>),      \* /resurrection Mir
      Update(Ira, None, << >>) }       \* /resurrection

----------------------------------------------------------------------------
(* Dispatch: Application.builder().token(token).build() leaves             *)
(* concurrent_updates off and every CommandHandler blocking, so            *)
(* run_polling awaits one update's handler to its end before it takes the *)
(* next update.                                                            *)

CanDispatchConcurrently == Cardinality(running) < MaxTasks

CanDispatch == running = {}

NoUse == [dmg |-> 0, heal |-> 0, resurrection |-> 0]

\* the handler `h` ran up to its first await
Enter(h) ==
    /\ file' = IF h.saved THEN save_state(h.state) ELSE file
    /\ running' = running \cup {h}
    /\ UNCHANGED <<today, payload>>

Counted(actor, kind, h) ==
    IF h.pc = "reply_success"
    THEN [used EXCEPT ![actor][kind] = @ + 1]
    ELSE used

Start ==
    \E update \in InfoUpdates :
        /\ CanDispatch
        /\ Enter(start(file, update))
        /\ UNCHANGED used

Help ==
    \E update \in InfoUpdates :
        /\ CanDispatch
        /\ Enter(start(file, update))
        /\ UNCHANGED used

Roll ==
    \E update \in InfoUpdates :
        /\ CanDispatch
        /\ Enter(roll(file, update))
        /\ UNCHANGED used

Hp ==
    \E update \in InfoUpdates :
        /\ CanDispatch
        /\ Enter(hp(file, update))
        /\ UNCHANGED used

DmgOf(update, amount) ==
    /\ CanDispatch
    /\ \E h \in {apply_delta(file, update, "dmg", amount, today)} :
           Enter(h) /\ used' = Counted(update.user.id, "dmg", h)

HealOf(update, amount) ==
    /\ CanDispatch
    /\ \E h \in {apply_delta(file, update, "heal", amount, today)} :
           Enter(h) /\ used' = Counted(update.user.id, "heal", h)

ResurrectionOf(update) ==
    /\ CanDispatch
    /\ \E h \in {resurrection(file, update, today)} :
           Enter(h) /\ used' = Counted(update.user.id, "resurrection", h)

\* The amounts random.randint(1, 8) draws in the model: half the die and the
\* whole die.  (With every amount of 1..8 each hp of 0..100 is reachable for
\* each pair of counters, which is beyond what can be enumerated; the
\* handlers themselves are defined for any amount.)
Rolled == {a \in DieMin..DieMax : a = DieMax \/ 2 * a = DieMax}

\* random.randint(1, 8) is reached on the success path only
Rolls(update, mode) ==
    IF apply_delta(file, update, mode, DieMin, today).pc = "reply_success"
    THEN Rolled
    ELSE {DieMin}

Dmg == \E update \in DeltaUpdates : \E amount \in Rolls(update, "dmg") :
           DmgOf(update, amount)

Heal == \E update \in DeltaUpdates : \E amount \in Rolls(update, "heal") :
            HealOf(update, amount)

Resurrection == \E update \in ResurrectionUpdates : ResurrectionOf(update)

\* reply_text returns: the no-target and quota-exhausted branches save the
\* state only now, the others are over
ResumeOf(h) ==
    /\ h \in running
    /\ running' = running \ {h}
    /\ file' = IF h.saved THEN file ELSE save_state(h.state)
    /\ UNCHANGED <<today, used, payload>>

Resume == \E h \in running : ResumeOf(h)

\* reply_text raises (the request to Telegram failed): the exception leaves
\* the handler, so a save_state placed after the await never runs
ReplyFailsOf(h) ==
    /\ h \in running
    /\ running' = running \ {h}
    /\ UNCHANGED <<file, today, used, payload>>

ReplyFails == \E h \in running : ReplyFailsOf(h)

\* midnight
Tick ==
    /\ today < MaxDay
    /\ today' = today + 1
    /\ used' = [a \in Users |->
                  [dmg |-> 0, heal |-> 0,
                   resurrection |->
                       IF current_week_key(today + 1) # current_week_key(today)
                       THEN 0 ELSE used[a].resurrection]]
    /\ UNCHANGED <<file, running, payload>>

NotCalled == [called |-> FALSE]

Init ==
    /\ file = [kind |-> "missing"]
    /\ today = FirstDay
    /\ running = {}
    /\ used = [a \in Users |-> NoUse]
    /\ payload = NotCalled

Next ==
    \/ Start \/ Help \/ Roll \/ Hp
    \/ Dmg \/ Heal \/ Resurrection
    \/ Resume \/ ReplyFails
    \/ Tick

Spec == Init /\ [][Next]_vars

\* the state a load_state() would return now
Persisted == load_state(file).value

----------------------------------------------------------------------------
(* Storage-level specification: load_state() called on a STATE_PATH the    *)
(* bot did not necessarily write itself.                                   *)

SomePlayers ==
    { << >>,
      << [key |-> "1", val |-> [name |-> Ira.full_name, hp |-> MAX_HP]] >>,
      << [key |-> "1", val |-> [name |-> Ira.full_name, hp |-> 0]] >>,
      << [key |-> "2", val |-> [name |-> Mira.full_name, hp |-> MAX_HP]] >>,
      << [key |-> "1", val |-> [name |-> Ira.full_name, hp |-> MAX_HP]],
         [key |-> "2", val |-> [name |-> Mira.full_name, hp |-> DieMax]] >>,
      << [key |-> "2", val |-> [name |-> Mira.full_name, hp |-> 0]],
         [key |-> "1", val |-> [name |-> Ira.full_name, hp |-> MAX_HP]] >>,
      << [key |-> "1", val |-> [name |-> Ira.full_name]] >>,
      << [key |-> "1", val |-> EmptyDict] >> }

SomeUsage ==
    { << >>,
      "1" :> [day |-> FirstDay, dmg |-> 0, heal |-> 0,
              week |-> current_week_key(FirstDay), resurrection |-> 0],
      "1" :> [day |-> FirstDay, dmg |-> DAILY_LIMIT, heal |-> DieMin,
              week |-> current_week_key(FirstDay),
              resurrection |-> WEEKLY_RESURRECTION_LIMIT],
      "1" :> [day |-> FirstDay],
      "1" :> EmptyDict }

\* a JSON object with or without its "players" and "usage" members
SomeDicts ==
    { (IF p.has THEN "players" :> p.v ELSE EmptyDict)
        @@ (IF u.has THEN "usage" :> u.v ELSE EmptyDict) :
          p \in [has : {TRUE}, v : SomePlayers] \cup {[has |-> FALSE]},
          u \in [has : {TRUE}, v : SomeUsage] \cup {[has |-> FALSE]} }

FileContents ==
    { [kind |-> k] : k \in {"missing", "oserror", "notutf8", "notjson"} }
    \cup { [kind |-> "json", doc |-> [type |-> t]] :
             t \in {"array", "string", "number", "true", "false", "null"} }
    \cup { [kind |-> "json", doc |-> json_dumps(d)] : d \in SomeDicts }

\* payload = load_state()
LoadState ==
    /\ payload = NotCalled
    /\ payload' = load_state(file)
    /\ UNCHANGED <<file, today, running, used>>

InitStore ==
    /\ file \in FileContents
    /\ today = FirstDay
    /\ running = {}
    /\ used = [a \in Users |-> NoUse]
    /\ payload = NotCalled

NextStore == LoadState

SpecStore == InitStore /\ [][NextStore]_vars

----------------------------------------------------------------------------
(* Storage-level specification of one save: Path.write_text opens          *)
(* STATE_PATH with mode "w", which truncates it, then writes the text and  *)
(* closes the file.  The write can raise OSError (disk full, I/O error) or *)
(* the process can die before the text is written out; the handler is then *)
(* over without having reached its reply.                                  *)

\* the contents load_state reads without raising
StoredFiles == {f \in FileContents : ~load_state(f).raised}

\* STATE_PATH after the open, and after a write that stopped part-way (cut
\* anywhere in the text, possibly inside a multi-byte character)
Truncated == [kind |-> "notjson"]

Torn == {[kind |-> "notjson"], [kind |-> "notutf8"]}

ReplyingUnsaved(h, f) ==
    [pc |-> "reply_success", state |-> h.state, saved |-> FALSE, before |-> f]

\* the handler `h` inside save_state(h.state), STATE_PATH having held `f`
Writing(h, f) ==
    [pc |-> "write_text", state |-> h.state, saved |-> FALSE, before |-> f]

OpenWrite(h) ==
    /\ running = {}
    /\ h.pc = "reply_success"
    /\ running' = {Writing(h, file)}
    /\ file' = Truncated
    /\ UNCHANGED <<today, used, payload>>

DmgSaves ==
    \E update \in DeltaUpdates, amount \in Rolled :
        OpenWrite(apply_delta(file, update, "dmg", amount, today))

HealSaves ==
    \E update \in DeltaUpdates, amount \in Rolled :
        OpenWrite(apply_delta(file, update, "heal", amount, today))

ResurrectionSaves ==
    \E update \in ResurrectionUpdates :
        OpenWrite(resurrection(file, update, today))

\* write_text returns: the text is in STATE_PATH, the handler goes on to
\* its reply
WriteReturns ==
    \E w \in running :
        /\ w.pc = "write_text"
        /\ file' = save_state(w.state)
        /\ running' = {[w EXCEPT !.pc = "reply_success", !.saved = TRUE]}
        /\ UNCHANGED <<today, used, payload>>

\* write_text raises, or the process dies in it
WriteRaises ==
    \E w \in running, torn \in Torn :
        /\ w.pc = "write_text"
        /\ file' = torn
        /\ running' = {[w EXCEPT !.pc = "raised"]}
        /\ UNCHANGED <<today, used, payload>>

\* the next load_state() after a failed save
LoadAfterFailure ==
    /\ \E w \in running : w.pc = "raised"
    /\ LoadState

InitSave ==
    /\ file \in StoredFiles
    /\ today = FirstDay
    /\ running = {}
    /\ used = [a \in Users |-> NoUse]
    /\ payload = NotCalled

NextSave ==
    \/ DmgSaves \/ HealSaves \/ ResurrectionSaves
    \/ WriteReturns \/ WriteRaises
    \/ LoadAfterFailure

SpecSave == InitSave /\ [][NextSave]_vars

----------------------------------------------------------------------------
(* Storage-level specification of the round trip: a handler has saved its  *)
(* state; load_state() reads it back, save_state(load_state()) writes what *)
(* was read, and load_state() reads again.                                 *)

\* the handler that saved `state` (pc "saved"), and later the same after
\* save_state(load_state()) ran (pc "saved_again")
Saved(state) == Suspended("saved", state, TRUE)

SaveLoaded ==
    \E h \in running :
        /\ h.pc = "saved"
        /\ payload # NotCalled
        /\ ~payload.raised
        /\ file' = save_state(payload.value)
        /\ running' = {[h EXCEPT !.pc = "saved_again"]}
        /\ payload' = NotCalled
        /\ UNCHANGED <<today, used>>

\* the snapshots handlers hand to save_state, whatever STATE_PATH held
InitRoundTrip ==
    /\ \E f \in StoredFiles, update \in ResurrectionUpdates :
          \E h \in {start(f, update),
                    apply_delta(f, update, "dmg", DieMax, FirstDay),
                    resurrection(f, update, FirstDay)} :
              /\ running = {Saved(h.state)}
              /\ file = save_state(h.state)
    /\ today = FirstDay
    /\ used = [a \in Users |-> NoUse]
    /\ payload = NotCalled

NextRoundTrip == LoadState \/ SaveLoaded

SpecRoundTrip == InitRoundTrip /\ [][NextRoundTrip]_vars

----------------------------------------------------------------------------
(* Call-level specification: one call of find_target_from_arg,             *)
(* resolve_target, ensure_player or of a dmg, heal or resurrection handler *)
(* on a store the bot has written, on the day it was written or later.     *)
(* payload records the call: its arguments, the state it was given and     *)
(* what it returned.                                                       *)

AtMiraName == <<"@", "m", "i", "r", "a">>

KeptPlayers ==
    { << >>,
      << [key |-> "1", val |-> [name |-> Ira.full_name, hp |-> MAX_HP]] >>,
      << [key |-> "2", val |-> [name |-> Mira.full_name, hp |-> 0]] >>,
      << [key |-> "1", val |-> [name |-> Ira.full_name, hp |-> MAX_HP]],
         [key |-> "2", val |-> [name |-> Mira.full_name, hp |-> DieMax]] >>,
      << [key |-> "2", val |-> [name |-> Mira.full_name, hp |-> MAX_HP - DieMin]],
         [key |-> "1", val |-> [name |-> Ira.full_name, hp |-> DieMin]] >>,
      \* Mira as she was named before she set a full name
      << [key |-> "1", val |-> [name |-> Ira.full_name, hp |-> 50]],
         [key |-> "2", val |-> [name |-> AtMiraName, hp |-> 50]] >>,
      \* somebody else who is called mira, stored before Mira
      << [key |-> "1", val |-> [name |-> Ira.full_name, hp |-> MAX_HP]],
         [key |-> "3", val |-> [name |-> Mira.username, hp |-> 50]],
         [key |-> "2", val |-> [name |-> Mira.full_name, hp |-> 50]] >> }

KeptRecord(day, dmg_count, heal_count, resurrection_count) ==
    [day |-> day, dmg |-> dmg_count, heal |-> heal_count,
     week |-> current_week_key(day), resurrection |-> resurrection_count]

KeptUsage ==
    { << >>,
      "1" :> KeptRecord(FirstDay, 0, 0, 0),
      "1" :> KeptRecord(FirstDay, DAILY_LIMIT, DieMin, WEEKLY_RESURRECTION_LIMIT),
      ("1" :> KeptRecord(FirstDay, 3, 2, 0))
          @@ ("2" :> KeptRecord(FirstDay, DAILY_LIMIT, 0, WEEKLY_RESURRECTION_LIMIT)) }

KeptFiles ==
    { [kind |-> "missing"] }
    \cup { save_state([players |-> p, usage |-> u]) :
             p \in KeptPlayers, u \in KeptUsage }

MiraLower == <<"m", "i", "r", "a">>

IraLower == <<"i", "r", "a">>

\* first argument tokens
Tokens ==
    { AtMira, MiraLower, Mir, IraLower,
      <<"@">>, <<"@", "@", "m", "i", "r", "a">> }

CallUpdates ==
    { Update(Ira, Mira, << >>),
      Update(Ira, Mira, <<IraLower>>),
      Update(Ira, Ira, <<AtMira>>),
      Update(Mira, None, <<IraLower>>),
      Update(Mira, None, <<Mir>>),
      Update(Ira, None, <<AtMira>>),
      Update(Ira, None, <<Mir>>),
      Update(Ira, None, << >>) }

Called(op, args, state, result) ==
    [called |-> TRUE, op |-> op, args |-> args, state |-> state,
     result |-> result]

Call(op, args, state, result) ==
    /\ payload = NotCalled
    /\ payload' = Called(op, args, state, result)
    /\ UNCHANGED <<file, today, running, used>>

CallFindTarget ==
    \E raw_target \in Tokens :
        Call("find_target_from_arg", [raw_target |-> raw_target], Persisted,
             find_target_from_arg(Persisted, raw_target))

CallResolveTarget ==
    \E update \in CallUpdates :
        Call("resolve_target", [update |-> update], Persisted,
             resolve_target(update, Persisted))

CallEnsurePlayer ==
    \E user \in Profiles, name \in {Ira.full_name, Mira.full_name, AtMiraName} :
        Call("ensure_player", [user_id |-> user.id, name |-> name], Persisted,
             ensure_player(Persisted, user.id, name))

\* a request from its load_state() to the end of its save_state(state):
\* the result is the handler as it stopped and the store as it then loads
Request(h) == [h |-> h, after |-> load_state(save_state(h.state)).value]

CallDmg ==
    \E update \in CallUpdates, amount \in DieMin..DieMax :
        Call("dmg", [update |-> update, amount |-> amount], Persisted,
             Request(apply_delta(file, update, "dmg", amount, today)))

CallHeal ==
    \E update \in CallUpdates, amount \in DieMin..DieMax :
        Call("heal", [update |-> update, amount |-> amount], Persisted,
             Request(apply_delta(file, update, "heal", amount, today)))

CallResurrection ==
    \E update \in CallUpdates :
        Call("resurrection", [update |-> update], Persisted,
             Request(resurrection(file, update, today)))

InitCalls ==
    /\ file \in KeptFiles
    /\ today \in FirstDay..MaxDay
    /\ running = {}
    /\ used = [a \in Users |-> NoUse]
    /\ payload = NotCalled

NextCalls ==
    \/ CallFindTarget \/ CallResolveTarget \/ CallEnsurePlayer
    \/ CallDmg \/ CallHeal \/ CallResurrection

SpecCalls == InitCalls /\ [][NextCalls]_vars

----------------------------------------------------------------------------
(* Views of a state dict used by the properties *)

Ids(state) == {state.players[i].key : i \in 1..Len(state.players)}

HpOf(state, id) == ODGet(state.players, id).hp

\* every participant of `before` has the same hp in `after`, and whoever is
\* new in `after` has MAX_HP
HpPreserved(before, after) ==
    /\ \A id \in Ids(before) : id \in Ids(after) /\ HpOf(after, id) = HpOf(before, id)
    /\ \A id \in Ids(after) \ Ids(before) : HpOf(after, id) = MAX_HP

----------------------------------------------------------------------------
(* C10: load_state never fails fatally: whatever STATE_PATH holds (missing, *)
(* unreadable, not parseable, parseable but not a mapping, a mapping        *)
(* without "players" or "usage"), it returns a snapshot holding both a      *)
(* players and a usage mapping, the empty snapshot when the content is      *)
(* missing or not well-formed.                                              *)

WellFormed(f) == f.kind = "json" /\ f.doc.type = "object"

C10_LoadNeverFails ==
    payload # NotCalled =>
        /\ ~payload.raised
        /\ {"players", "usage"} \subseteq DOMAIN payload.value
        /\ ~WellFormed(file) => payload.value = EmptyState

----------------------------------------------------------------------------
(* C1: starting from an empty store, after any sequence of start, help,    *)
(* roll, hp, dmg, heal and resurrection requests, every participant's hp   *)
(* in the persisted snapshot satisfies 0 <= hp <= 100.                     *)

C1_HpWithinBounds ==
    \A id \in Ids(Persisted) : HpOf(Persisted, id) \in 0..MAX_HP

\* Mira was brought to 0 hp, on a day on which Ira dealt damage and healed
C1_Witness ==
    /\ "2" \in Ids(Persisted)
    /\ HpOf(Persisted, "2") = 0
    /\ used["1"].dmg > 0
    /\ used["1"].heal > 0

----------------------------------------------------------------------------
(* C2: in every reachable state each actor's usage record satisfies        *)
(* 0 <= dmg <= 10, 0 <= heal <= 10 and 0 <= resurrection <= 1, in the      *)
(* persisted snapshot and in the state a suspended handler is about to     *)
(* save; so a request made at the ceiling never increments the counter.    *)

CountersWithinCeilings(usage) ==
    \A a \in DOMAIN usage :
        /\ usage[a].dmg \in 0..DAILY_LIMIT
        /\ usage[a].heal \in 0..DAILY_LIMIT
        /\ usage[a].resurrection \in 0..WEEKLY_RESURRECTION_LIMIT

C2_CountersWithinCeilings ==
    /\ CountersWithinCeilings(Persisted.usage)
    /\ \A h \in running : CountersWithinCeilings(h.state.usage)

\* a request was refused for its quota while all three counters of the
\* actor are at their ceilings
C2_Witness ==
    \E h \in running :
        /\ h.pc = "reply_quota"
        /\ "1" \in DOMAIN Persisted.usage
        /\ Persisted.usage["1"].dmg = DAILY_LIMIT
        /\ Persisted.usage["1"].heal = DAILY_LIMIT
        /\ Persisted.usage["1"].resurrection = WEEKLY_RESURRECTION_LIMIT
        /\ h.state.usage = Persisted.usage

----------------------------------------------------------------------------
(* C3: under serialized request handling, for every actor and calendar day *)
(* at most 10 damage and at most 10 heal requests succeed; once an actor   *)
(* has 10 successful damage requests in a day, every further damage        *)
(* request of that actor on that day is refused (for its quota whenever it *)
(* names a target by reply) and leaves every participant's hp unchanged.   *)

C3_DailyCeiling ==
    /\ [](\A a \in Users : used[a].dmg <= DAILY_LIMIT /\ used[a].heal <= DAILY_LIMIT)
    /\ [][\A update \in DeltaUpdates, amount \in DieMin..DieMax :
            (used[update.user.id].dmg >= DAILY_LIMIT /\ DmgOf(update, amount)) =>
                /\ used' = used
                /\ file' = file
                /\ \A h \in running' \ running :
                      /\ ~h.saved
                      /\ update.reply # None => h.pc = "reply_quota"
                      /\ \A P \in {Persisted} : HpPreserved(P, h.state)]_vars
    /\ [][\A h \in running :
            (h.pc = "reply_quota" /\ ResumeOf(h)) =>
                \A P \in {Persisted}, f \in {file'} :
                    HpPreserved(P, load_state(f).value)]_vars

\* an eleventh damage request of the day was refused
C3_Witness ==
    /\ used["1"].dmg = DAILY_LIMIT
    /\ \E h \in running :
          /\ h.pc = "reply_quota"
          /\ h.state.usage["1"].dmg = DAILY_LIMIT
          /\ h.state.usage["1"].heal < DAILY_LIMIT
          /\ h.state.usage["1"].resurrection < WEEKLY_RESURRECTION_LIMIT

----------------------------------------------------------------------------
(* C4: a successful resurrection request sets the target's hp to exactly   *)
(* 100 whatever it was and increases the actor's weekly resurrection       *)
(* counter by exactly 1; any second resurrection request of the same actor *)
(* in the same ISO week is refused, whatever target it names.              *)

\* the actor's counter as of this week, before the request
WeeklyCount(state, a, now) ==
    IF a \in DOMAIN state.usage /\ state.usage[a].week = current_week_key(now)
    THEN state.usage[a].resurrection
    ELSE 0

C4_Resurrection ==
    /\ [](\A a \in Users : used[a].resurrection <= WEEKLY_RESURRECTION_LIMIT)
    /\ [][\A update \in ResurrectionUpdates :
            ((used' # used \/ used[update.user.id].resurrection > 0)
                /\ ResurrectionOf(update)) =>
                LET a == update.user.id
                    t == resolve_target(update, Persisted).target
                IN  /\ used[a].resurrection > 0 =>
                          /\ used' = used
                          /\ file' = file
                          /\ \A h \in running' \ running :
                                /\ ~h.saved
                                /\ update.reply # None => h.pc = "reply_quota"
                    /\ used' # used =>
                          /\ used[a].resurrection = 0
                          /\ \A P \in {Persisted}, f \in {file'} :
                               \A Q \in {load_state(f).value} :
                                /\ HpOf(Q, t.user_id) = MAX_HP
                                /\ Q.usage[a].resurrection
                                      = WeeklyCount(P, a, today) + 1]_vars

\* on the first day Mira was damaged and never healed, a resurrection brought
\* her back to 100, and a second resurrection request is being refused
C4_Witness ==
    /\ today = FirstDay
    /\ used["1"].resurrection = 1
    /\ \E h \in running :
          /\ h.pc = "reply_quota"
          /\ h.state.usage["1"].resurrection = WEEKLY_RESURRECTION_LIMIT
          /\ h.state.usage["1"].dmg > 0
          /\ h.state.usage["1"].dmg < DAILY_LIMIT
          /\ h.state.usage["1"].heal = 0
          /\ "2" \in Ids(h.state)
          /\ HpOf(h.state, "2") = MAX_HP

----------------------------------------------------------------------------
(* C5: for each actor the dmg, heal and resurrection counters never        *)
(* decrease while the stored window key (day for dmg/heal, week for        *)
(* resurrection) stays the same; when the observed day (resp. week)        *)
(* differs from the stored key, the first usage access sets the key to the *)
(* current value and dmg and heal together (resp. resurrection) to exactly *)
(* 0, and a later access within the same window resets nothing.            *)

\* what one usage access at time `now` does to the stored record of actor a
AccessResets(state, a, now) ==
    LET u == Get(state.usage, a, EmptyDict)
        once == actor_usage(state, a, now)
        v == once.usage[a]
    IN  /\ v.day = current_day_key(now)
        /\ v.week = current_week_key(now)
        /\ IF GetDiffers(u, "day", current_day_key(now))
           THEN v.dmg = 0 /\ v.heal = 0
           ELSE v.dmg = u.dmg /\ v.heal = u.heal
        /\ IF GetDiffers(u, "week", current_week_key(now))
           THEN v.resurrection = 0
           ELSE v.resurrection = u.resurrection
        /\ actor_usage(once, a, now) = once

C5_WindowCounters ==
    /\ [](\A P \in {Persisted} : \A a \in Users : AccessResets(P, a, today))
    /\ [][\A P \in {Persisted}, f \in {file'} :
          \A Q \in {load_state(f).value} : \A a \in DOMAIN P.usage :
            /\ a \in DOMAIN Q.usage
            /\ LET u == P.usage[a]
                   v == Q.usage[a]
               IN  /\ v.day = u.day => v.dmg >= u.dmg /\ v.heal >= u.heal
                   /\ v.week = u.week => v.resurrection >= u.resurrection
                   /\ v.day # u.day => u.day < v.day /\ v.dmg + v.heal <= 1
                   /\ v.week # u.week =>
                         u.week < v.week /\ v.resurrection <= 1]_vars

\* on the last day the stored record is in the new day and week with two
\* damage requests counted, and Mira has lost more than two rolls can take:
\* the counters of an earlier day were reset once, and not again
C5_Witness ==
    /\ today = MaxDay
    /\ "1" \in DOMAIN Persisted.usage
    /\ Persisted.usage["1"].day = today
    /\ Persisted.usage["1"].week = current_week_key(today)
    /\ Persisted.usage["1"].dmg = 2
    /\ Persisted.usage["1"].heal = 0
    /\ "2" \in Ids(Persisted)
    /\ HpOf(Persisted, "2") < MAX_HP - 2 * DieMax

----------------------------------------------------------------------------
(* C6: when the calendar day changes between two usage accesses of the     *)
(* same actor but the ISO week does not, the day reset leaves the actor's  *)
(* week key and resurrection counter unchanged; the resurrection counter   *)
(* is reset only when the ISO week key differs.                            *)

DayResetKeepsWeek(state, a, now) ==
    LET u == Get(state.usage, a, EmptyDict)
        v == actor_usage(state, a, now).usage[a]
    IN  (/\ ~GetDiffers(u, "week", current_week_key(now))
         /\ "resurrection" \in DOMAIN u) =>
            /\ v.week = u.week
            /\ v.resurrection = u.resurrection

C6_DayResetKeepsWeek ==
    /\ [](\A P \in {Persisted} :
            \A a \in Users : DayResetKeepsWeek(P, a, today))
    /\ [][\A P \in {Persisted}, f \in {file'} :
          \A Q \in {load_state(f).value} : \A a \in DOMAIN P.usage :
            /\ a \in DOMAIN Q.usage
            /\ LET u == P.usage[a]
                   v == Q.usage[a]
               IN  /\ v.resurrection < u.resurrection => v.week # u.week
                   /\ (v.day # u.day /\ v.week = u.week) =>
                         v.resurrection \in
                            {u.resurrection, u.resurrection + 1}]_vars

\* a request of the day after a resurrection, same week: the usage access
\* has reset the damage counter and kept the week's resurrection
C6_Witness ==
    /\ "1" \in DOMAIN Persisted.usage
    /\ Persisted.usage["1"].dmg > 0
    /\ Persisted.usage["1"].resurrection = 1
    /\ \E h \in running :
          /\ h.pc = "reply_quota"
          /\ h.state.usage["1"].day # Persisted.usage["1"].day
          /\ h.state.usage["1"].week = Persisted.usage["1"].week
          /\ h.state.usage["1"].dmg = 0
          /\ h.state.usage["1"].resurrection = 1

----------------------------------------------------------------------------
(* C7: a dmg, heal or resurrection request for which no target is resolved *)
(* consumes no quota: the actor's dmg, heal and resurrection counters and  *)
(* the whole usage mapping are the same after the request as before it,    *)
(* and no participant's hp changes.                                        *)

C7_NoTargetNoQuota ==
    /\ [][\A h \in running' \ running :
            h.pc = "reply_notarget" =>
                /\ used' = used
                /\ file' = file
                /\ \A P \in {Persisted} :
                      /\ h.state.usage = P.usage
                      /\ HpPreserved(P, h.state)]_vars
    /\ [][\A h \in running :
            (h.pc = "reply_notarget" /\ (ResumeOf(h) \/ ReplyFailsOf(h))) =>
                /\ used' = used
                /\ \A P \in {Persisted}, f \in {file'} :
                     \A Q \in {load_state(f).value} :
                        /\ Q.usage = P.usage
                        /\ HpPreserved(P, Q)]_vars

\* a request without target, sent by an actor whose stored counters are of
\* an earlier day, while Mira is wounded
C7_Witness ==
    /\ "1" \in DOMAIN Persisted.usage
    /\ Persisted.usage["1"].dmg > 0
    /\ Persisted.usage["1"].day # today
    /\ "2" \in Ids(Persisted)
    /\ HpOf(Persisted, "2") < MAX_HP
    /\ \E h \in running :
          /\ h.pc = "reply_notarget"
          /\ h.state.usage = Persisted.usage

----------------------------------------------------------------------------
(* C8 as stated: a request that ends in a recoverable user-facing failure  *)
(* (no target resolved, or daily/weekly quota exhausted) causes no state   *)
(* mutation: the persisted snapshot after the request equals the persisted *)
(* snapshot before it.                                                     *)

C8_NoMutationOnFailure ==
    [][\A h \in running :
          (~h.saved /\ ResumeOf(h)) =>
              \A f \in {file'} : load_state(f).value = Persisted]_vars

Counters == {"dmg", "heal", "resurrection"}

\* the usage mapping `after` holds no count that `before` did not hold: a
\* counter is what it was or 0, and a new record counts nothing
NothingConsumed(before, after) ==
    /\ DOMAIN before.usage \subseteq DOMAIN after.usage
    /\ \A a \in DOMAIN after.usage : \A k \in Counters :
          \/ after.usage[a][k] = 0
          \/ a \in DOMAIN before.usage /\ after.usage[a][k] = before.usage[a][k]

(* C8: a request that ends in a recoverable user-facing failure (no target *)
(* resolved, or daily/weekly quota exhausted) changes no participant's hp  *)
(* and consumes no quota.  The persisted snapshot may still change: the    *)
(* actor and a reply target are registered with hp 100 or get their name   *)
(* refreshed, and on the quota path the actor's window is normalised (keys *)
(* set to the current day and week, counters of a past window set to 0).   *)
(* On the no-target path the usage mapping is unchanged.                   *)

C8_FailureKeepsHpAndCounters ==
    [][\A h \in running :
          (~h.saved /\ (ResumeOf(h) \/ ReplyFailsOf(h))) =>
              /\ used' = used
              /\ \A P \in {Persisted}, f \in {file'} :
                   \A Q \in {load_state(f).value} :
                      /\ HpPreserved(P, Q)
                      /\ NothingConsumed(P, Q)
                      /\ h.pc = "reply_notarget" => Q.usage = P.usage]_vars

\* a refused request is about to save a snapshot that differs from the
\* stored one in the usage mapping, while Mira is wounded
C8_Witness ==
    /\ "2" \in Ids(Persisted)
    /\ HpOf(Persisted, "2") < MAX_HP
    /\ \E h \in running :
          /\ h.pc = "reply_quota"
          /\ ~h.saved
          /\ h.state.usage # Persisted.usage

----------------------------------------------------------------------------
(* C9: every request is handled as one atomic load-mutate-save cycle: on   *)
(* every path of every handler there is no point between the request's     *)
(* load_state and its save_state at which another request's load or save   *)
(* runs, so a snapshot saved by one request is never overwritten by a save *)
(* computed from an older load.  (The no-target and quota paths do await   *)
(* reply_text between load and save; while one of them is suspended there  *)
(* no other handler is started, and the store stays as it was loaded       *)
(* until the suspended handler itself saves.)                              *)

----------------------------------------------------------------------------
(* C11: save_state replaces the durable snapshot as an atomic unit: if a   *)
(* save fails or the process crashes at any point during it, a subsequent  *)
(* load_state observes either the complete previous snapshot or the        *)
(* complete new snapshot, never an empty or partially written one.         *)

C11_SaveAtomic ==
    \A w \in running :
        (w.pc = "raised" /\ payload # NotCalled) =>
            \/ payload = load_state(w.before)
            \/ payload = Return(w.state)

----------------------------------------------------------------------------
(* C20: for dmg, heal and resurrection a success reply is sent only after  *)
(* the snapshot containing the request's hp change and counter increment   *)
(* has been saved; if save_state raises, no success reply is sent for the  *)
(* request.                                                                *)

C20_ReplyAfterPersist ==
    /\ [](\A h \in running :
            h.pc = "reply_success" =>
                /\ h.saved
                /\ load_state(file) = Return(h.state)
                /\ h.state.usage # load_state(h.before).value.usage)
    /\ [][\A h \in running' \ running :
            h.pc = "reply_success" =>
                \E w \in running : w.pc = "write_text" /\ w.state = h.state]_vars
    /\ [][\A w \in running :
            w.pc = "raised" => \A h \in running' : h.pc # "reply_success"]_vars

\* the reply to a damage request that took Mira below 100 is being sent
C20_Witness ==
    \E h \in running :
        /\ h.pc = "reply_success"
        /\ "2" \in Ids(h.state)
        /\ "hp" \in DOMAIN ODGet(h.state.players, "2")
        /\ HpOf(h.state, "2") = MAX_HP - DieMax
        /\ h.state.usage["1"].dmg > 0
        /\ file = save_state(h.state)

----------------------------------------------------------------------------
(* C12: for every snapshot S written by save_state, load_state() returns   *)
(* S, and save_state(load_state()) followed by load_state() again returns  *)
(* a snapshot with the same participants and usage as S.                   *)

C12_RoundTrip ==
    \A h \in running :
        payload # NotCalled =>
            /\ ~payload.raised
            /\ h.pc = "saved" => payload.value = h.state
            /\ h.pc = "saved_again" =>
                  /\ payload.value.players = h.state.players
                  /\ payload.value.usage = h.state.usage

\* read back after save_state(load_state()): Mira, stored before Ira and at
\* hp 0, and Ira's usage record
C12_Witness ==
    \E h \in running :
        /\ h.pc = "saved_again"
        /\ payload # NotCalled
        /\ Len(payload.value.players) = 2
        /\ payload.value.players[1].key = "2"
        /\ payload.value.players[1].val.hp = 0
        /\ "1" \in DOMAIN payload.value.usage
        /\ "dmg" \in DOMAIN payload.value.usage["1"]
        /\ payload.value.usage["1"].dmg > 0

----------------------------------------------------------------------------
(* C13: whenever the request carries a reply reference with an             *)
(* identifiable author, that author is the resolved target even if a name  *)
(* token is also present and matches a different participant, and the      *)
(* author is registered as a participant (hp 100 if never seen before);    *)
(* the name token is consulted only when there is no such reply author.    *)

C13_ReplyPrecedence ==
    (payload # NotCalled /\ payload.op = "resolve_target") =>
        LET update == payload.args.update
            before == payload.state
            target == payload.result.target
            after == payload.result.state
        IN  IF update.reply # None
            THEN /\ target = Target(update.reply.id,
                                    user_display_name(update.reply))
                 /\ update.reply.id \in Ids(after)
                 /\ ODGet(after.players, update.reply.id).name = target.name
                 /\ HpOf(after, update.reply.id) =
                        IF update.reply.id \in Ids(before)
                        THEN HpOf(before, update.reply.id)
                        ELSE MAX_HP
            ELSE /\ after = before
                 /\ target = IF update.args = << >> THEN None
                             ELSE find_target_from_arg(before, update.args[1])

\* a reply to Mira, who was never seen, with the token "ira", which is the
\* name of a participant: the target is Mira, now registered with hp 100
C13_Witness ==
    /\ payload # NotCalled
    /\ payload.op = "resolve_target"
    /\ payload.args.update = Update(Ira, Mira, <<IraLower>>)
    /\ find_target_from_arg(payload.state, IraLower) # None
    /\ "2" \notin Ids(payload.state)
    /\ payload.result.target.user_id = "2"
    /\ HpOf(payload.result.state, "2") = MAX_HP

----------------------------------------------------------------------------
(* C15: a name token resolves to a participant if and only if the token    *)
(* and that participant's stored name are equal ignoring case after a      *)
(* leading @ is stripped from each; a token that is only a proper prefix   *)
(* of a name or that is empty after stripping resolves to no participant.  *)
(* (Among several participants of an equal name it resolves to the first.) *)

\* s without a leading @
StripLeadingAt(s) == IF s # << >> /\ Head(s) = "@" THEN Tail(s) ELSE s

NamesEqual(token, name) ==
    /\ StripLeadingAt(Lower(token)) # << >>
    /\ StripLeadingAt(Lower(token)) = StripLeadingAt(Lower(name))

C15_NameMatching ==
    (payload # NotCalled /\ payload.op = "find_target_from_arg") =>
        LET token == payload.args.raw_target
            players == payload.state.players
            equal == {i \in 1..Len(players) :
                         NamesEqual(token, players[i].val.name)}
            target == payload.result
        IN  IF equal = {} THEN target = None
            ELSE \E i \in equal :
                    /\ \A j \in equal : i <= j
                    /\ target = Target(players[i].key, players[i].val.name)

----------------------------------------------------------------------------
(* C14: resolution by name token never creates a participant: after a      *)
(* request that has no reply reference and whose token matches no stored   *)
(* name, the set of participant identities equals the previous set plus    *)
(* (at most) the actor's own identity.                                     *)

NoStoredNameMatches(state, token) ==
    \A i \in 1..Len(state.players) :
        LStrip(Lower(state.players[i].val.name), {"@"})
            # LStrip(Lower(token), {"@"})

C14_TokenNeverCreates ==
    (payload # NotCalled /\ payload.op \in {"dmg", "heal", "resurrection"}) =>
        LET update == payload.args.update
            before == payload.state
            h == payload.result.h
            after == payload.result.after
        IN  (/\ update.reply = None
             /\ update.args # << >>
             /\ NoStoredNameMatches(before, update.args[1])) =>
                /\ Ids(before) \subseteq Ids(after)
                /\ Ids(after) \subseteq Ids(before) \cup {update.user.id}
                /\ Ids(h.state) = Ids(after)

\* Mira, not yet a participant, sends /dmg Mir to a store that holds Ira:
\* afterwards the participants are Ira and Mira
C14_Witness ==
    /\ payload # NotCalled
    /\ payload.op = "dmg"
    /\ payload.args.update = Update(Mira, None, <<Mir>>)
    /\ Ids(payload.state) = {"1"}
    /\ payload.result.h.pc = "reply_notarget"
    /\ Ids(payload.result.after) = {"1", "2"}

----------------------------------------------------------------------------
(* C16 as stated: a successful damage (resp. heal) request with rolled     *)
(* amount a in 1..8 sets the target's hp to max(0, hp - a) (resp.          *)
(* min(100, hp + a)), increases only the actor's dmg (resp. heal) counter  *)
(* and by exactly 1, and leaves the hp of every other participant, the     *)
(* actor's other two counters and every other actor's usage record         *)
(* unchanged.                                                              *)

NoCounts == [dmg |-> 0, heal |-> 0, resurrection |-> 0]

\* the hp a participant has in `state`, MAX_HP for one not yet registered
HpOrNew(state, id) == IF id \in Ids(state) THEN HpOf(state, id) ELSE MAX_HP

\* the effect of a successful request of `mode` by `actor` on `target` with
\* amount `a`, the actor's counters having been `counts` before it
DeltaEffect(before, after, mode, actor, target, a, counts) ==
    /\ Ids(before) \cup {actor, target} = Ids(after)
    /\ HpOf(after, target) =
          IF mode = "dmg" THEN Max(0, HpOrNew(before, target) - a)
          ELSE Min(MAX_HP, HpOrNew(before, target) + a)
    /\ \A id \in Ids(after) \ {target} : HpOf(after, id) = HpOrNew(before, id)
    /\ DOMAIN after.usage = DOMAIN before.usage \cup {actor}
    /\ after.usage[actor][mode] = counts[mode] + 1
    /\ \A k \in Counters \ {mode} : after.usage[actor][k] = counts[k]
    /\ \A b \in DOMAIN before.usage \ {actor} : after.usage[b] = before.usage[b]

\* whom the request names
TargetOf(before, update) ==
    resolve_target(update,
        ensure_player(before, update.user.id,
                      user_display_name(update.user))).target.user_id

C16_DeltaFrameStored ==
    (/\ payload # NotCalled
     /\ payload.op \in {"dmg", "heal"}
     /\ payload.result.h.pc = "reply_success") =>
        LET update == payload.args.update
            before == payload.state
            actor == update.user.id
        IN  DeltaEffect(before, payload.result.after, payload.op, actor,
                        TargetOf(before, update), payload.args.amount,
                        Get(before.usage, actor, NoCounts))

(* C16: a successful damage (resp. heal) request with rolled amount a in   *)
(* 1..8 sets the target's hp to max(0, hp - a) (resp. min(100, hp + a)),   *)
(* hp being 100 for a target not yet registered; relative to the actor's   *)
(* usage record as normalised for the current day and week (dmg and heal   *)
(* counted from 0 on a new day, resurrection from 0 in a new week) it      *)
(* increases only the dmg (resp. heal) counter and by exactly 1 and leaves *)
(* the other two counters unchanged; it leaves the hp of every other       *)
(* participant and every other actor's usage record unchanged.             *)

C16_DeltaFrame ==
    (/\ payload # NotCalled
     /\ payload.op \in {"dmg", "heal"}
     /\ payload.result.h.pc = "reply_success") =>
        LET update == payload.args.update
            before == payload.state
            actor == update.user.id
        IN  DeltaEffect(before, payload.result.after, payload.op, actor,
                        TargetOf(before, update), payload.args.amount,
                        actor_usage(before, actor, today).usage[actor])

\* the day after Ira's stored counters were written, with Mira's record in
\* the usage mapping: a damage of 8 takes Mira from 8 to 0 and Ira's
\* counters are dmg 1, heal 0
C16_Witness ==
    /\ payload # NotCalled
    /\ payload.op = "dmg"
    /\ payload.args.amount = DieMax
    /\ payload.args.update = Update(Ira, Mira, << >>)
    /\ today > FirstDay
    /\ DOMAIN payload.state.usage = {"1", "2"}
    /\ payload.state.usage["1"].heal > 0
    /\ "2" \in Ids(payload.state)
    /\ HpOf(payload.state, "2") = DieMax
    /\ payload.result.h.pc = "reply_success"
    /\ HpOf(payload.result.after, "2") = 0
    /\ payload.result.after.usage["1"].dmg = 1
    /\ payload.result.after.usage["1"].heal = 0

----------------------------------------------------------------------------
(* C17: ensure_player always succeeds and: for an unknown identity creates *)
(* a participant with hp = 100 and the given name; for a known identity    *)
(* overwrites the name with the given one and leaves hp unchanged; in both *)
(* cases leaves every other participant and the whole usage mapping        *)
(* unchanged.                                                              *)

C17_EnsurePlayerFrame ==
    (payload # NotCalled /\ payload.op = "ensure_player") =>
        LET before == payload.state
            after == payload.result
            id == payload.args.user_id
            name == payload.args.name
        IN  /\ Ids(after) = Ids(before) \cup {id}
            /\ id \notin Ids(before) =>
                  ODGet(after.players, id) = [name |-> name, hp |-> MAX_HP]
            /\ id \in Ids(before) =>
                  /\ ODGet(after.players, id).name = name
                  /\ HpOf(after, id) = HpOf(before, id)
                  /\ DOMAIN ODGet(after.players, id) = {"name", "hp"}
            /\ \A other \in Ids(before) \ {id} :
                  ODGet(after.players, other) = ODGet(before.players, other)
            /\ after.usage = before.usage

\* Mira, stored as "Mira" with 8 hp next to Ira and with usage records in
\* the store, is ensured under the name "@mira"
C17_Witness ==
    /\ payload # NotCalled
    /\ payload.op = "ensure_player"
    /\ payload.args.user_id = "2"
    /\ payload.args.name = AtMiraName
    /\ Ids(payload.state) = {"1", "2"}
    /\ ODGet(payload.state.players, "2") = [name |-> Mira.full_name, hp |-> DieMax]
    /\ payload.state.usage # << >>
    /\ ODGet(payload.result.players, "2") = [name |-> AtMiraName, hp |-> DieMax]

----------------------------------------------------------------------------
(* C18: starting from an empty store, in every persisted snapshot every    *)
(* identity that has a usage record also has a participant record (the     *)
(* actor is registered before its usage record is created or touched).     *)

UsageHasParticipant(state) == DOMAIN state.usage \subseteq Ids(state)

C18_UsageImpliesParticipant ==
    /\ UsageHasParticipant(Persisted)
    /\ \A h \in running : UsageHasParticipant(h.state)

\* Ira has a usage record with a counted damage, Mira is a participant
\* without one
C18_Witness ==
    /\ Ids(Persisted) = {"1", "2"}
    /\ DOMAIN Persisted.usage = {"1"}
    /\ Persisted.usage["1"].dmg > 0
    /\ used["1"].dmg > 0

----------------------------------------------------------------------------
(* C19: participants are never deleted: under serialized request handling  *)
(* with durable storage that stays readable and well-formed, once an       *)
(* identity appears in the persisted participants mapping it appears in    *)
(* every later persisted snapshot, including after it reaches hp 0 (a      *)
(* participant at hp 0 can still act, be damaged, healed and resurrected). *)

====
